---------------------------- MODULE Spec2Model ----------------------------
(***************************************************************************)
(* De Bruijn graph assembler (debruijn.py): k-mer indexing, graph          *)
(* construction, bubble resolution, entry/exit tip resolution and contig   *)
(* extraction.                                                             *)
(*                                                                         *)
(* A nucleotide is a one-character string; a read, a k-mer and a graph     *)
(* node are sequences of nucleotides.  Python's insertion-ordered dicts    *)
(* (kmer_dict, the DiGraph's node and adjacency dicts) are sequences in    *)
(* insertion order.  Python indexes from 0, the model from 1: best_index   *)
(* of the code is the model's index minus one.                             *)
(***************************************************************************)
EXTENDS Integers, Sequences, FiniteSets, TLC

VARIABLES
    reads,            \* the reads yielded so far by read_fastq
    kmer_size,        \* args.kmer_size
    kmer_dict,        \* build_kmer_dict's kmer_dict, in insertion order
    graph,            \* the DiGraph: [nodes, edges], both in insertion order
    pc,               \* position in the program
    starting_nodes,   \* solve_entry_tips' starting_nodes / main's start_nodes
    ending_nodes,     \* solve_out_tips' ending_nodes / main's end_nodes
    flag,             \* bubble_detected / modification_effectuee
    last,             \* the last call of select_best_path (history)
    err,              \* the exception that ended the run, "" if none
    contigs           \* get_contigs' result

vars == <<reads, kmer_size, kmer_dict, graph, pc, starting_nodes,
          ending_nodes, flag, last, err, contigs>>

-----------------------------------------------------------------------------
(* Bounds of the model. *)

\* number of reads of the input file, function-level specification
MaxReads == 4
\* nucleotides of the input file (all reads together) and k-mer size,
\* pipeline specification
MaxBases == 5
MaxK == 3
\* length of the read and k-mer size, specification of a file of one read
MaxReadLen == 8
MaxKOne == 4
\* length of the reads and copies of the first read, specification of a
\* file of reads that differ by one substituted nucleotide
MaxPairLen == 5
MaxCopies == 2

Alphabet == <<"A", "C", "G", "T">>

-----------------------------------------------------------------------------
(* Sequence helpers. *)

Range(s) == {s[i] : i \in 1..Len(s)}

Last(s) == s[Len(s)]

RECURSIVE Flatten(_)
Flatten(ss) == IF ss = <<>> THEN <<>> ELSE Head(ss) \o Flatten(Tail(ss))

RECURSIVE SumSeq(_)
SumSeq(s) == IF s = <<>> THEN 0 ELSE Head(s) + SumSeq(Tail(s))

-----------------------------------------------------------------------------
(* cut_kmer, build_kmer_dict, build_graph. *)

\* mutant of cut_kmer: range(len(read) - kmer_size), the last k-mer is lost
cut_kmer_short(read, k) ==
    [i \in 1..(IF Len(read) - k > 0 THEN Len(read) - k ELSE 0)
        |-> SubSeq(read, i, i + k - 1)]

\* cut_kmer: read[i:i+kmer_size] for i in range(len(read) - kmer_size + 1)
cut_kmer(read, k) ==
    [i \in 1..(IF Len(read) - k + 1 > 0 THEN Len(read) - k + 1 ELSE 0)
        |-> SubSeq(read, i, i + k - 1)]

\* mutant of DictCount: kmer_dict[kmer] = 1 in both branches
DictCountReset(d, kmer) ==
    IF \E i \in 1..Len(d) : d[i].kmer = kmer
    THEN [i \in 1..Len(d) |->
            IF d[i].kmer = kmer THEN [d[i] EXCEPT !.count = 1] ELSE d[i]]
    ELSE Append(d, [kmer |-> kmer, count |-> 1])

\* kmer_dict[kmer] += 1 if present, else kmer_dict[kmer] = 1
DictCount(d, kmer) ==
    IF \E i \in 1..Len(d) : d[i].kmer = kmer
    THEN [i \in 1..Len(d) |->
            IF d[i].kmer = kmer THEN [d[i] EXCEPT !.count = @ + 1] ELSE d[i]]
    ELSE Append(d, [kmer |-> kmer, count |-> 1])

RECURSIVE DictCountAll(_, _)
DictCountAll(d, kmers) ==
    IF kmers = <<>> THEN d
    ELSE DictCountAll(DictCount(d, Head(kmers)), Tail(kmers))

EmptyGraph == [nodes |-> <<>>, edges |-> <<>>]

\* mutant of add_node: the node is appended even when it is there already
add_node_append(G, n) == [G EXCEPT !.nodes = Append(@, n)]

\* DiGraph.add_node(n): a node already in the graph stays where it is
add_node(G, n) ==
    IF n \in Range(G.nodes) THEN G ELSE [G EXCEPT !.nodes = Append(@, n)]

\* DiGraph.add_edge(u, v, weight=w): u then v become nodes, the edge is
\* appended to the adjacency dicts or, when present, its weight overwritten
add_edge(G, u, v, w) ==
    LET G2 == add_node(add_node(G, u), v) IN
    IF \E i \in 1..Len(G2.edges) : G2.edges[i].u = u /\ G2.edges[i].v = v
    THEN [G2 EXCEPT !.edges = [i \in 1..Len(@) |->
            IF @[i].u = u /\ @[i].v = v THEN [@[i] EXCEPT !.w = w] ELSE @[i]]]
    ELSE [G2 EXCEPT !.edges = Append(@, [u |-> u, v |-> v, w |-> w])]

\* mutant of BuildFrom: every edge gets the weight 1
RECURSIVE BuildFromUnit(_, _)
BuildFromUnit(G, d) ==
    IF d = <<>> THEN G
    ELSE LET kmer == Head(d).kmer
             prefix == SubSeq(kmer, 1, Len(kmer) - 1)
             suffix == SubSeq(kmer, 2, Len(kmer))
         IN BuildFromUnit(add_edge(G, prefix, suffix, 1), Tail(d))

\* build_graph, lines 155-158: the entries of kmer_dict in insertion order
RECURSIVE BuildFrom(_, _)
BuildFrom(G, d) ==
    IF d = <<>> THEN G
    ELSE LET kmer == Head(d).kmer
             prefix == SubSeq(kmer, 1, Len(kmer) - 1)
             suffix == SubSeq(kmer, 2, Len(kmer))
         IN BuildFrom(add_edge(G, prefix, suffix, Head(d).count), Tail(d))

build_graph(d) == BuildFrom(EmptyGraph, d)

-----------------------------------------------------------------------------
(* DiGraph queries. *)

NodeSet(G) == Range(G.nodes)

successors(G, n) ==
    LET es == SelectSeq(G.edges, LAMBDA e : e.u = n)
    IN [i \in 1..Len(es) |-> es[i].v]

predecessors(G, n) ==
    LET es == SelectSeq(G.edges, LAMBDA e : e.v = n)
    IN [i \in 1..Len(es) |-> es[i].u]

get_starting_nodes(G) ==
    SelectSeq(G.nodes, LAMBDA n : predecessors(G, n) = <<>>)

get_sink_nodes(G) ==
    SelectSeq(G.nodes, LAMBDA n : successors(G, n) = <<>>)

\* mutant of remove_nodes_from: the weight of the edges that go is moved
\* onto the first edge that stays
remove_nodes_from_transfer(G, ns) ==
    LET gone == SelectSeq(G.edges, LAMBDA e : e.u \in ns \/ e.v \in ns)
        kept == SelectSeq(G.edges, LAMBDA e : e.u \notin ns /\ e.v \notin ns)
        moved == SumSeq([i \in 1..Len(gone) |-> gone[i].w])
    IN [nodes |-> SelectSeq(G.nodes, LAMBDA n : n \notin ns),
        edges |-> [i \in 1..Len(kept) |->
                     IF i = 1 THEN [kept[i] EXCEPT !.w = @ + moved]
                     ELSE kept[i]]]

\* DiGraph.remove_nodes_from(ns): the nodes and their edges go, the order of
\* what stays is kept; nodes not in the graph are ignored
remove_nodes_from(G, ns) ==
    [nodes |-> SelectSeq(G.nodes, LAMBDA n : n \notin ns),
     edges |-> SelectSeq(G.edges, LAMBDA e : e.u \notin ns /\ e.v \notin ns)]

\* the nodes reachable from the set S by one or more edges
RECURSIVE ReachPlus(_, _, _)
ReachPlus(G, S, acc) ==
    LET nxt == {e.v : e \in {x \in Range(G.edges) : x.u \in S}} \ acc
    IN IF nxt = {} THEN acc ELSE ReachPlus(G, nxt, acc \cup nxt)

descendants(G, n) == ReachPlus(G, {n}, {}) \ {n}

ancestors(G, n) == {m \in NodeSet(G) \ {n} : n \in ReachPlus(G, {m}, {})}

has_path(G, s, t) == s = t \/ t \in ReachPlus(G, {s}, {})

is_directed_acyclic_graph(G) ==
    \A n \in NodeSet(G) : n \notin ReachPlus(G, {n}, {})

\* networkx all_simple_paths: depth-first, children in adjacency order, a
\* child already on the path is skipped, the search does not go through the
\* target; source = target yields the one-node path (networkx 3.2 and
\* later; earlier releases yield no path there)
RECURSIVE PathsFrom(_, _, _)
PathsFrom(G, visited, t) ==
    LET ch == successors(G, Last(visited)) IN
    Flatten([i \in 1..Len(ch) |->
        IF ch[i] \in Range(visited) THEN <<>>
        ELSE IF ch[i] = t THEN << Append(visited, t) >>
        ELSE PathsFrom(G, Append(visited, ch[i]), t)])

all_simple_paths(G, s, t) ==
    IF s = t THEN << <<s>> >> ELSE PathsFrom(G, <<s>>, t)

\* networkx lowest_common_ancestor(G, n1, n2) on a DAG: it starts from an
\* arbitrary element of the set of common ancestors (set iteration order)
\* and moves to a successor that is a common ancestor until there is none.
\* Every common ancestor without a successor among the common ancestors
\* is a possible result; the empty set stands for the default None.
common_ancestors(G, n1, n2) ==
    (ancestors(G, n1) \cup {n1}) \cap (ancestors(G, n2) \cup {n2})

lowest_common_ancestor(G, n1, n2) ==
    LET ca == common_ancestors(G, n1, n2)
    IN {c \in ca : Range(successors(G, c)) \cap ca = {}}

-----------------------------------------------------------------------------
(* path_average_weight, select_best_path, remove_paths. *)

\* graph.subgraph(path).edges: every edge with both ends on the path
subgraph_edges(G, path) ==
    SelectSeq(G.edges, LAMBDA e : e.u \in Range(path) /\ e.v \in Range(path))

\* statistics.mean of the weights, kept as the exact fraction num/den
path_average_weight(G, path) ==
    LET es == subgraph_edges(G, path)
    IN [num |-> SumSeq([i \in 1..Len(es) |-> es[i].w]), den |-> Len(es)]

MeanEq(a, b) == a.num * b.den = b.num * a.den
MeanLeq(a, b) == a.num * b.den <= b.num * a.den

\* statistics.stdev(xs) > 0: two of the values differ
StdevPositiveMeans(ws) == \E i, j \in 1..Len(ws) : ~MeanEq(ws[i], ws[j])
StdevPositive(xs) == \E i, j \in 1..Len(xs) : xs[i] # xs[j]

\* weight_avg_list.index(max(weight_avg_list))
IndexOfMaxMean(ws) ==
    CHOOSE i \in 1..Len(ws) :
        /\ \A j \in 1..Len(ws) : MeanLeq(ws[j], ws[i])
        /\ \A j \in 1..(i-1) : ~MeanEq(ws[j], ws[i])

\* path_length.index(max(path_length))
IndexOfMax(xs) ==
    CHOOSE i \in 1..Len(xs) :
        /\ \A j \in 1..Len(xs) : xs[j] <= xs[i]
        /\ \A j \in 1..(i-1) : xs[j] # xs[i]

\* mutant of best_index: the lengths are looked at before the weights
best_index_length_first(path_length, weight_avg_list) ==
    IF StdevPositive(path_length) THEN IndexOfMax(path_length)
    ELSE IF StdevPositiveMeans(weight_avg_list)
    THEN IndexOfMaxMean(weight_avg_list)
    ELSE 0

\* The choice of best_index, lines 206-211.  The third branch calls
\* randint, a name the module never binds (only "import random"): the call
\* raises NameError.  0 stands for that outcome.
best_index(path_length, weight_avg_list) ==
    IF StdevPositiveMeans(weight_avg_list) THEN IndexOfMaxMean(weight_avg_list)
    ELSE IF StdevPositive(path_length) THEN IndexOfMax(path_length)
    ELSE 0

\* mutant of nodes_to_remove: the two slices are forgotten
nodes_to_remove_all(path, delete_entry_node, delete_sink_node) == path

\* nodes_to_remove of one path, lines 178-182
nodes_to_remove(path, delete_entry_node, delete_sink_node) ==
    LET p1 == IF delete_entry_node THEN path ELSE Tail(path)
    IN IF delete_sink_node THEN p1
       ELSE IF p1 = <<>> THEN <<>> ELSE SubSeq(p1, 1, Len(p1) - 1)

remove_paths(G, path_list, delete_entry_node, delete_sink_node) ==
    remove_nodes_from(G,
        UNION {Range(nodes_to_remove(path_list[i], delete_entry_node,
                                     delete_sink_node)) : i \in 1..Len(path_list)})

\* paths_to_remove, line 214
paths_to_remove(path_list, best) ==
    LET idx == SelectSeq([i \in 1..Len(path_list) |-> i], LAMBDA i : i # best)
    IN [j \in 1..Len(idx) |-> path_list[idx[j]]]

\* select_best_path: the graph it returns, or the exception it raises
select_best_path(G, path_list, path_length, weight_avg_list, delete_entry_node, delete_sink_node) ==
    LET best == best_index(path_length, weight_avg_list) IN
    IF best = 0
    THEN [graph |-> G, err |-> "NameError", best |-> 0]
    ELSE [graph |-> remove_paths(G, paths_to_remove(path_list, best),
                                 delete_entry_node, delete_sink_node),
          err |-> "", best |-> best]

-----------------------------------------------------------------------------
(* The record kept of a call of select_best_path. *)

NoLast == [op |-> "none", paths |-> <<>>, lengths |-> <<>>, weights |-> <<>>,
           best |-> 0, ends |-> {}, before |-> EmptyGraph]

\* The lists a caller builds for its candidate paths and the call itself:
\* path_lengths = [len(path) ...], weight_averages = [path_average_weight ...].
\* ends: the endpoint(s) the candidate paths share.
Resolve(op, G, paths, ends, delete_entry_node, delete_sink_node) ==
    LET lens == [i \in 1..Len(paths) |-> Len(paths[i])]
        ws   == [i \in 1..Len(paths) |-> path_average_weight(G, paths[i])]
        r    == select_best_path(G, paths, lens, ws,
                                 delete_entry_node, delete_sink_node)
    IN [graph |-> r.graph, err |-> r.err,
        last |-> [op |-> op, paths |-> paths, lengths |-> lens, weights |-> ws,
                  best |-> r.best, ends |-> ends, before |-> G]]

\* positions of the nodes with more than one predecessor / successor
MultiPred(G) == {i \in 1..Len(G.nodes) : Len(predecessors(G, G.nodes[i])) > 1}
MultiSucc(G) == {i \in 1..Len(G.nodes) : Len(successors(G, G.nodes[i])) > 1}

Min(S) == CHOOSE x \in S : \A y \in S : x <= y

\* "if ancestor_node:" for a node string or None
TruthyLCA(G, n) ==
    LET preds == predecessors(G, n)
    IN {a \in lowest_common_ancestor(G, preds[1], preds[2]) : a # <<>>}

\* mutant of plusieurs_chemins: one path is enough
un_chemin(chemins) == Len(chemins) > 0

\* "if len(chemins) > 1:", lines 298 and 336
plusieurs_chemins(chemins) == Len(chemins) > 1

\* mutant of entry_chemins: only the first starting node is looked at
entry_chemins_first(G, starts, node) ==
    IF starts # <<>> /\ has_path(G, starts[1], node)
    THEN SelectSeq(all_simple_paths(G, starts[1], node),
                   LAMBDA chemin : Len(chemin) >= 2)
    ELSE <<>>

\* mutant of entry_chemins: len(chemin) >= 3, paths of two edges or more
entry_chemins_two_edges(G, starts, node) ==
    Flatten([i \in 1..Len(starts) |->
        IF has_path(G, starts[i], node)
        THEN SelectSeq(all_simple_paths(G, starts[i], node),
                       LAMBDA chemin : Len(chemin) >= 3)
        ELSE <<>>])

\* chemins of solve_entry_tips for one node, lines 286-295
entry_chemins(G, starts, node) ==
    Flatten([i \in 1..Len(starts) |->
        IF has_path(G, starts[i], node)
        THEN SelectSeq(all_simple_paths(G, starts[i], node),
                       LAMBDA chemin : Len(chemin) >= 2)
        ELSE <<>>])

\* chemins of solve_out_tips for one node, lines 324-333
out_chemins(G, ends, node) ==
    Flatten([i \in 1..Len(ends) |->
        IF has_path(G, node, ends[i])
        THEN SelectSeq(all_simple_paths(G, node, ends[i]),
                       LAMBDA chemin : Len(chemin) >= 2)
        ELSE <<>>])

\* mutant of ending_nodes_after: the list is never computed again
ending_nodes_kept(G, ends, modification_effectuee) == ends

\* lines 346-347: ending_nodes after a scan of solve_out_tips
ending_nodes_after(G, ends, modification_effectuee) ==
    IF modification_effectuee THEN get_sink_nodes(G) ELSE ends

\* get_contigs, lines 383-395
contig_of(path) ==
    Head(path) \o [i \in 1..(Len(path) - 1) |-> Last(path[i + 1])]

\* mutant of get_contigs: one contig for each pair, the first path's
get_contigs_first(G, starts, ends) ==
    Flatten([i \in 1..Len(starts) |->
        Flatten([j \in 1..Len(ends) |->
            IF has_path(G, starts[i], ends[j])
            THEN LET ps == all_simple_paths(G, starts[i], ends[j])
                 IN [m \in 1..(IF ps = <<>> THEN 0 ELSE 1) |->
                        [seq |-> contig_of(ps[m]), len |-> Len(contig_of(ps[m]))]]
            ELSE <<>>])])

get_contigs(G, starts, ends) ==
    Flatten([i \in 1..Len(starts) |->
        Flatten([j \in 1..Len(ends) |->
            IF has_path(G, starts[i], ends[j])
            THEN LET ps == all_simple_paths(G, starts[i], ends[j])
                 IN [m \in 1..Len(ps) |->
                        [seq |-> contig_of(ps[m]), len |-> Len(contig_of(ps[m]))]]
            ELSE <<>>])])

-----------------------------------------------------------------------------
(* Inputs.  Nucleotides are interchangeable for the code, so a read may   *)
(* introduce only the first unused nucleotide of Alphabet.                *)

AlphaIndex(c) == CHOOSE i \in 1..Len(Alphabet) : Alphabet[i] = c

UsedCount(rs) ==
    LET used == UNION {Range(rs[i]) : i \in 1..Len(rs)}
    IN Cardinality(used)

RECURSIVE Canonical(_, _)
Canonical(m, read) ==
    IF read = <<>> THEN TRUE
    ELSE LET i == AlphaIndex(Head(read))
         IN i <= m + 1 /\ Canonical(IF i > m THEN i ELSE m, Tail(read))

ReadsOfLen(n) == [1..n -> Range(Alphabet)]

TotalLen(rs) == SumSeq([i \in 1..Len(rs) |-> Len(rs[i])])

-----------------------------------------------------------------------------
(* Actions. *)

Init ==
    /\ reads = <<>>
    /\ kmer_size = 2
    /\ kmer_dict = <<>>
    /\ graph = EmptyGraph
    /\ pc = "read"
    /\ starting_nodes = <<>>
    /\ ending_nodes = <<>>
    /\ flag = FALSE
    /\ last = NoLast
    /\ err = ""
    /\ contigs = <<>>

\* build_kmer_dict, one turn of "for read in read_fastq(fastq_file)"
ReadStep(read) ==
    /\ pc = "read"
    /\ Canonical(UsedCount(reads), read)
    /\ reads' = Append(reads, read)
    /\ kmer_dict' = DictCountAll(kmer_dict, cut_kmer(read, kmer_size))
    /\ UNCHANGED <<kmer_size, graph, pc, starting_nodes, ending_nodes, flag,
                   last, err, contigs>>

\* the file of the function-level specification: reads of k nucleotides,
\* one k-mer each
ReadKmer ==
    /\ Len(reads) < MaxReads
    /\ \E read \in ReadsOfLen(kmer_size) : ReadStep(read)

\* main, lines 450-458: end of the file, build_graph, start and end nodes
BuildGraph ==
    /\ pc = "read"
    /\ pc' = "built"
    /\ graph' = build_graph(kmer_dict)
    /\ starting_nodes' = get_starting_nodes(build_graph(kmer_dict))
    /\ ending_nodes' = get_sink_nodes(build_graph(kmer_dict))
    /\ UNCHANGED <<reads, kmer_size, kmer_dict, flag, last, err, contigs>>

\* simplify_bubbles is called, line 259
CallSimplifyBubbles ==
    /\ pc = "built"
    /\ pc' = "sb_while"
    /\ flag' = TRUE
    /\ UNCHANGED <<reads, kmer_size, kmer_dict, graph, starting_nodes,
                   ending_nodes, last, err, contigs>>

\* lines 260-261 and the return of line 271
SbWhile ==
    /\ pc = "sb_while"
    /\ pc' = IF flag THEN "sb_for" ELSE "sb_done"
    /\ flag' = FALSE
    /\ UNCHANGED <<reads, kmer_size, kmer_dict, graph, starting_nodes,
                   ending_nodes, last, err, contigs>>

\* lines 262-270 with solve_bubble: the scan of the nodes up to the break.
\* The first node with two predecessors makes the first call of
\* lowest_common_ancestor, which raises NetworkXError on a cyclic graph.
SbFor ==
    /\ pc = "sb_for"
    /\ LET G == graph
           hits == {i \in MultiPred(G) : TruthyLCA(G, G.nodes[i]) # {}}
       IN IF MultiPred(G) # {} /\ ~is_directed_acyclic_graph(G)
          THEN /\ pc' = "error"
               /\ err' = "NetworkXError"
               /\ UNCHANGED <<graph, flag, last>>
          ELSE IF hits = {}
          THEN /\ pc' = "sb_while"
               /\ UNCHANGED <<graph, flag, last, err>>
          ELSE LET node == G.nodes[Min(hits)] IN
               \E ancestor_node \in TruthyLCA(G, node) :
                  LET paths == all_simple_paths(G, ancestor_node, node)
                      r == Resolve("bubble", G, paths, {ancestor_node, node},
                                   FALSE, FALSE)
                  IN IF Len(paths) < 2
                     THEN /\ pc' = "sb_while"
                          /\ flag' = TRUE
                          /\ UNCHANGED <<graph, last, err>>
                     ELSE /\ graph' = r.graph
                          /\ last' = r.last
                          /\ err' = r.err
                          /\ flag' = (r.err = "")
                          /\ pc' = IF r.err = "" THEN "sb_while" ELSE "error"
    /\ UNCHANGED <<reads, kmer_size, kmer_dict, starting_nodes, ending_nodes,
                   contigs>>

\* solve_entry_tips is called with the current starting nodes
\* (main, lines 465-470)
CallSolveEntryTips ==
    /\ pc \in {"built", "sb_done"}
    /\ pc' = "et"
    /\ starting_nodes' = get_starting_nodes(graph)
    /\ ending_nodes' = get_sink_nodes(graph)
    /\ UNCHANGED <<reads, kmer_size, kmer_dict, graph, flag, last, err, contigs>>

\* one call of solve_entry_tips, lines 281-306: the scan, and on a
\* resolution the recursive call with get_starting_nodes(graph)
SolveEntryTips ==
    /\ pc = "et"
    /\ LET G == graph
           hits == {i \in MultiPred(G) :
                      plusieurs_chemins(entry_chemins(G, starting_nodes, G.nodes[i]))}
       IN IF hits = {}
          THEN /\ pc' = "et_done"
               /\ UNCHANGED <<graph, starting_nodes, last, err>>
          ELSE LET node == G.nodes[Min(hits)]
                   r == Resolve("entry", G,
                                entry_chemins(G, starting_nodes, node),
                                {node}, TRUE, FALSE)
               IN /\ graph' = r.graph
                  /\ last' = r.last
                  /\ err' = r.err
                  /\ starting_nodes' = IF r.err = ""
                                       THEN get_starting_nodes(r.graph)
                                       ELSE starting_nodes
                  /\ pc' = IF r.err = "" THEN "et" ELSE "error"
    /\ UNCHANGED <<reads, kmer_size, kmer_dict, ending_nodes, flag, contigs>>

\* solve_out_tips is called with the current sink nodes
\* (main, lines 473-478, and line 316)
CallSolveOutTips ==
    /\ pc \in {"built", "sb_done", "et_done"}
    /\ pc' = "ot_while"
    /\ flag' = TRUE
    /\ starting_nodes' = get_starting_nodes(graph)
    /\ ending_nodes' = get_sink_nodes(graph)
    /\ UNCHANGED <<reads, kmer_size, kmer_dict, graph, last, err, contigs>>

\* lines 317-318 and the return of line 349
OtWhile ==
    /\ pc = "ot_while"
    /\ pc' = IF flag THEN "ot_for" ELSE "ot_done"
    /\ flag' = FALSE
    /\ UNCHANGED <<reads, kmer_size, kmer_dict, graph, starting_nodes,
                   ending_nodes, last, err, contigs>>

\* lines 319-347: the scan up to the break, then the new ending_nodes
OtFor ==
    /\ pc = "ot_for"
    /\ LET G == graph
           hits == {i \in MultiSucc(G) :
                      plusieurs_chemins(out_chemins(G, ending_nodes, G.nodes[i]))}
       IN IF hits = {}
          THEN /\ pc' = "ot_while"
               /\ UNCHANGED <<graph, ending_nodes, flag, last, err>>
          ELSE LET node == G.nodes[Min(hits)]
                   r == Resolve("out", G,
                                out_chemins(G, ending_nodes, node),
                                {node}, FALSE, TRUE)
               IN /\ graph' = r.graph
                  /\ last' = r.last
                  /\ err' = r.err
                  /\ flag' = (r.err = "")
                  /\ ending_nodes' = ending_nodes_after(r.graph, ending_nodes,
                                                       r.err = "")
                  /\ pc' = IF r.err = "" THEN "ot_while" ELSE "error"
    /\ UNCHANGED <<reads, kmer_size, kmer_dict, starting_nodes, contigs>>

\* main, lines 481-485
GetContigs ==
    /\ pc = "ot_done"
    /\ pc' = "done"
    /\ starting_nodes' = get_starting_nodes(graph)
    /\ ending_nodes' = get_sink_nodes(graph)
    /\ contigs' = get_contigs(graph, get_starting_nodes(graph),
                              get_sink_nodes(graph))
    /\ UNCHANGED <<reads, kmer_size, kmer_dict, graph, flag, last, err>>

Pipeline ==
    \/ BuildGraph
    \/ CallSimplifyBubbles
    \/ SbWhile
    \/ SbFor
    \/ CallSolveEntryTips
    \/ SolveEntryTips
    \/ CallSolveOutTips
    \/ OtWhile
    \/ OtFor
    \/ GetContigs

Next == ReadKmer \/ Pipeline

Spec == Init /\ [][Next]_vars

\* The pipeline of main on a file of reads of any length.
MainInit ==
    /\ reads = <<>>
    /\ kmer_size \in 1..MaxK
    /\ kmer_dict = <<>>
    /\ graph = EmptyGraph
    /\ pc = "read"
    /\ starting_nodes = <<>>
    /\ ending_nodes = <<>>
    /\ flag = FALSE
    /\ last = NoLast
    /\ err = ""
    /\ contigs = <<>>

ReadAny ==
    \E n \in 1..(MaxBases - TotalLen(reads)) :
        \E read \in ReadsOfLen(n) : ReadStep(read)

\* get_contigs called on the graph as it is between two procedures, with
\* its nodes without predecessors and its nodes without successors
ExtractContigs ==
    /\ pc \in {"built", "sb_done", "et_done"}
    /\ pc' = "done"
    /\ starting_nodes' = get_starting_nodes(graph)
    /\ ending_nodes' = get_sink_nodes(graph)
    /\ contigs' = get_contigs(graph, get_starting_nodes(graph),
                              get_sink_nodes(graph))
    /\ UNCHANGED <<reads, kmer_size, kmer_dict, graph, flag, last, err>>

NextMain == ReadAny \/ Pipeline \/ ExtractContigs

MainSpec == MainInit /\ [][NextMain]_vars

\* The pipeline of main on a file of exactly one read.
OneReadInit ==
    /\ reads = <<>>
    /\ kmer_size \in 2..MaxKOne
    /\ kmer_dict = <<>>
    /\ graph = EmptyGraph
    /\ pc = "read"
    /\ starting_nodes = <<>>
    /\ ending_nodes = <<>>
    /\ flag = FALSE
    /\ last = NoLast
    /\ err = ""
    /\ contigs = <<>>

ReadOne ==
    /\ reads = <<>>
    /\ \E n \in 1..MaxReadLen : \E read \in ReadsOfLen(n) : ReadStep(read)

NextOne == ReadOne \/ Pipeline

OneReadSpec == OneReadInit /\ [][NextOne]_vars

\* The pipeline of main on a file that holds one read, once or several
\* times, and then possibly the same read with one nucleotide substituted,
\* once or several times.
PairInit ==
    /\ reads = <<>>
    /\ kmer_size \in 2..MaxK
    /\ kmer_dict = <<>>
    /\ graph = EmptyGraph
    /\ pc = "read"
    /\ starting_nodes = <<>>
    /\ ending_nodes = <<>>
    /\ flag = FALSE
    /\ last = NoLast
    /\ err = ""
    /\ contigs = <<>>

ReadFirst ==
    /\ reads = <<>>
    /\ \E n \in kmer_size..MaxPairLen : \E read \in ReadsOfLen(n) : ReadStep(read)

ReadCopy ==
    /\ reads # <<>>
    /\ Cardinality({i \in 1..Len(reads) : reads[i] = Last(reads)}) < MaxCopies
    /\ ReadStep(Last(reads))

ReadVariant ==
    /\ reads # <<>>
    /\ Last(reads) = reads[1]
    /\ \E i \in 1..Len(reads[1]) : \E c \in Range(Alphabet) \ {reads[1][i]} :
          ReadStep([reads[1] EXCEPT ![i] = c])

\* main, lines 454-485: the procedures in the order main calls them
main ==
    \/ BuildGraph
    \/ CallSimplifyBubbles
    \/ SbWhile
    \/ SbFor
    \/ (pc = "sb_done" /\ CallSolveEntryTips)
    \/ SolveEntryTips
    \/ (pc = "et_done" /\ CallSolveOutTips)
    \/ OtWhile
    \/ OtFor
    \/ GetContigs

NextPair == ReadFirst \/ ReadCopy \/ ReadVariant \/ main

PairSpec == PairInit /\ [][NextPair]_vars

\* The whole run of main on a file of reads of k nucleotides.
NextRun == ReadKmer \/ main

RunSpec == Init /\ [][NextRun]_vars

\* The program is one thread: once inside a procedure it keeps taking the
\* steps of that procedure.  SbFor, SolveEntryTips and OtFor are enabled
\* exactly at their position (each always has an outcome and always moves
\* pc or the graph), so their weak fairness WF_vars(A) is written with
\* ENABLED <<A>>_vars spelled out as the position.
FairSpec ==
    /\ Init /\ [][Next]_vars
    /\ WF_vars(SbWhile) /\ WF_vars(OtWhile)
    /\ ([]<><<SbFor>>_vars \/ []<>(pc # "sb_for"))
    /\ ([]<><<SolveEntryTips>>_vars \/ []<>(pc # "et"))
    /\ ([]<><<OtFor>>_vars \/ []<>(pc # "ot_for"))

-----------------------------------------------------------------------------
(* Claims. *)

InBubbles == pc \in {"sb_while", "sb_for"}

Resolving == pc \in {"sb_while", "sb_for", "et", "ot_while", "ot_for"}

\* a call of select_best_path has been made / has returned
Called == last.op # "none"
Returned == last.op # "none" /\ last.best # 0

RemovedNodes == NodeSet(last.before) \ NodeSet(graph)

HasEdge(G, a, b) == \E e \in Range(G.edges) : e.u = a /\ e.v = b

\* the simple paths from s to t, stated on their own: the sequences of two
\* or more distinct nodes from s to t whose consecutive nodes are joined by
\* an edge
SimplePaths(G, s, t) ==
    {p \in UNION {[1..m -> NodeSet(G)] : m \in 2..Cardinality(NodeSet(G))} :
        /\ p[1] = s /\ p[Len(p)] = t
        /\ \A i, j \in 1..Len(p) : i # j => p[i] # p[j]
        /\ \A i \in 1..(Len(p) - 1) : HasEdge(G, p[i], p[i + 1])}

\* C1: simplify_bubbles terminates on every acyclic input graph: once it is
\* running on an acyclic graph it eventually leaves its loop.  Leaving by
\* an exception is counted as terminating here, so that only a run that
\* never leaves the loop violates the formula.
C1_BubblesTerminate ==
    [](InBubbles /\ is_directed_acyclic_graph(graph)
          => <>(pc \in {"sb_done", "error"}))

\* C2: when simplify_bubbles returns, no node has two distinct predecessors
\* (any pair) with a lowest common ancestor from which two or more simple
\* paths lead to the node.
C2_NoBubbleLeft ==
    pc = "sb_done" =>
        \A n \in NodeSet(graph) :
            \A p, q \in Range(predecessors(graph, n)) :
                p # q =>
                    \A a \in lowest_common_ancestor(graph, p, q) :
                        Cardinality(SimplePaths(graph, a, n)) < 2

\* the lists of the recorded call, compared as the claims word them
WeightsDiffer ==
    \E i, j \in 1..Len(last.weights) :
        last.weights[i].num * last.weights[j].den
            # last.weights[j].num * last.weights[i].den

LengthsDiffer ==
    \E i, j \in 1..Len(last.lengths) : last.lengths[i] # last.lengths[j]

FirstMaxWeight(b) ==
    /\ b \in 1..Len(last.weights)
    /\ \A j \in 1..Len(last.weights) :
          last.weights[j].num * last.weights[b].den
              <= last.weights[b].num * last.weights[j].den
    /\ \A j \in 1..(b - 1) :
          last.weights[j].num * last.weights[b].den
              < last.weights[b].num * last.weights[j].den

FirstMaxLength(b) ==
    /\ b \in 1..Len(last.lengths)
    /\ \A j \in 1..Len(last.lengths) : last.lengths[j] <= last.lengths[b]
    /\ \A j \in 1..(b - 1) : last.lengths[j] < last.lengths[b]

\* C3: with average weights not all equal the chosen index is the first
\* one of maximal average weight; otherwise, with lengths not all equal,
\* the first one of maximal length; the call returns in both cases (no
\* random choice) and only nodes of the other paths are removed.
C3_BestIndex ==
    Called /\ (WeightsDiffer \/ LengthsDiffer) =>
        /\ err = ""
        /\ IF WeightsDiffer THEN FirstMaxWeight(last.best)
                            ELSE FirstMaxLength(last.best)
        /\ RemovedNodes \subseteq
              UNION {Range(last.paths[i]) :
                        i \in (1..Len(last.paths)) \ {last.best}}

C3_Witness ==
    /\ Called /\ WeightsDiffer /\ last.best > 1 /\ RemovedNodes # {}

\* C4: with all average weights equal and all lengths equal the call
\* completes: it chooses an index in range and removes the other paths.
C4_TieBreakCompletes ==
    Called /\ ~WeightsDiffer /\ ~LengthsDiffer =>
        /\ err = ""
        /\ last.best \in 1..Len(last.paths)

\* C5: after a resolution step the chosen path is intact: all its nodes and
\* all its edges are in the graph.
C5_BestPathSurvives ==
    Returned =>
        LET best == last.paths[last.best] IN
        /\ Range(best) \subseteq NodeSet(graph)
        /\ \A i \in 1..(Len(best) - 1) : HasEdge(graph, best[i], best[i + 1])

\* C6: a resolution step never deletes the endpoint(s) its paths share: the
\* ancestor and the convergence node of a bubble, the convergence node of
\* an entry tip, the divergence node of an exit tip.
C6_EndpointsKept ==
    Called =>
        /\ last.ends \subseteq NodeSet(graph)
        /\ last.op = "bubble" =>
              \A i \in 1..Len(last.paths) :
                  {Head(last.paths[i]), Last(last.paths[i])} = last.ends
        /\ last.op = "entry" =>
              \A i \in 1..Len(last.paths) : {Last(last.paths[i])} = last.ends
        /\ last.op = "out" =>
              \A i \in 1..Len(last.paths) : {Head(last.paths[i])} = last.ends

C6_Witness ==
    /\ Returned /\ last.op = "bubble" /\ RemovedNodes # {}

\* C7: every call of select_best_path made by solve_entry_tips and
\* solve_out_tips removes at least one node.
C7_TipResolutionRemoves ==
    Called /\ last.op \in {"entry", "out"} =>
        Len(graph.nodes) < Len(last.before.nodes)

\* the nodes without predecessors / without successors of a graph
Sources(G) == {n \in NodeSet(G) : ~\E e \in Range(G.edges) : e.v = n}
Sinks(G) == {n \in NodeSet(G) : ~\E e \in Range(G.edges) : e.u = n}

\* C8: when solve_entry_tips returns, no node with two or more predecessors
\* is reached by two or more simple paths from the nodes without
\* predecessors; when solve_out_tips returns, no node with two or more
\* successors has two or more simple paths to the nodes without successors.
C8_NoTipLeft ==
    /\ pc = "et_done" =>
          \A n \in NodeSet(graph) :
              Cardinality({e \in Range(graph.edges) : e.v = n}) >= 2 =>
                  Cardinality(UNION {SimplePaths(graph, s, n) :
                                        s \in Sources(graph)}) < 2
    /\ pc = "ot_done" =>
          \A n \in NodeSet(graph) :
              Cardinality({e \in Range(graph.edges) : e.u = n}) >= 2 =>
                  Cardinality(UNION {SimplePaths(graph, n, t) :
                                        t \in Sinks(graph)}) < 2

C8_Witness ==
    /\ pc = "et_done" /\ Returned /\ last.op = "entry"
    /\ \E n \in NodeSet(graph) :
          Cardinality({e \in Range(graph.edges) : e.v = n}) >= 2

\* C9: across every step of the three procedures the graph only shrinks:
\* no node and no edge is added, and a surviving edge keeps its weight.
C9_GraphShrinks ==
    [][Resolving =>
          /\ NodeSet(graph') \subseteq NodeSet(graph)
          /\ Range(graph'.edges) \subseteq Range(graph.edges)]_vars

C9_Witness ==
    /\ Returned /\ RemovedNodes # {} /\ graph.edges # <<>>

\* no m-mer occurs twice in the read
NoRepeat(read, m) ==
    \A i, j \in 1..(Len(read) - m + 1) :
        i # j => SubSeq(read, i, i + m - 1) # SubSeq(read, j, j + m - 1)

\* the file was one read, with 2 <= k <= len(read) and no repeated (k-1)-mer
RoundTripCase ==
    /\ pc # "read"
    /\ Len(reads) = 1
    /\ kmer_size >= 2 /\ kmer_size <= Len(reads[1])
    /\ NoRepeat(reads[1], kmer_size - 1)

\* C10: for a file of one read in which no (k-1)-mer occurs twice, with
\* 2 <= k <= len(read), the run raises nothing and ends with exactly one
\* contig, whose sequence is the read and whose length is len(read).
C10_RoundTrip ==
    RoundTripCase =>
        /\ pc # "error"
        /\ pc = "done" =>
              contigs = << [seq |-> reads[1], len |-> Len(reads[1])] >>

C10_Witness ==
    /\ RoundTripCase /\ pc = "done"
    /\ kmer_size = 3 /\ Len(reads[1]) > kmer_size
    /\ last.op = "none"

\* the read of the example and its 3-mers
ExampleRead == <<"A", "C", "G", "T", "A", "C", "G", "A">>

ExampleCase == reads = <<ExampleRead>> /\ kmer_size = 4 /\ pc # "read"

ExampleDict ==
    /\ Len(kmer_dict) = 5
    /\ Range(kmer_dict) =
          {[kmer |-> SubSeq(ExampleRead, i, i + 3), count |-> 1] : i \in 1..5}

ExampleNodeOnce ==
    Cardinality({i \in 1..Len(graph.nodes) :
                    graph.nodes[i] = <<"A", "C", "G">>}) = 1

\* C11: for the one read ACGTACGA and k = 4 the k-mer mapping is ACGT:1,
\* CGTA:1, GTAC:1, TACG:1, ACGA:1, the node ACG is in the graph once, and
\* the contigs extracted at the end of the run include ACGTACGA.
C11_ExampleContig ==
    ExampleCase =>
        /\ ExampleDict
        /\ ExampleNodeOnce
        /\ pc = "done" =>
              \E i \in 1..Len(contigs) : contigs[i].seq = ExampleRead

\* C11 as amended: the mapping and the node are as stated, and the run
\* ends without an exception and with no contig at all, because ACG lies
\* on the cycle ACG, CGT, GTA, TAC and the graph has no node without
\* predecessors.
C11_ExampleNoContig ==
    ExampleCase =>
        /\ ExampleDict
        /\ ExampleNodeOnce
        /\ pc # "error"
        /\ get_starting_nodes(graph) = <<>>
        /\ pc = "done" => contigs = <<>>

C11_Witness ==
    /\ ExampleCase /\ pc = "done" /\ Len(graph.nodes) = 5
    /\ ending_nodes = << <<"C", "G", "A">> >>

\* the interior of a path and the mean weight of its own edges, num/den
Interior(p) == {p[i] : i \in 2..(Len(p) - 1)}

EdgeWeight(G, a, b) ==
    (CHOOSE e \in Range(G.edges) : e.u = a /\ e.v = b).w

OwnWeightSum(G, p) ==
    SumSeq([i \in 1..(Len(p) - 1) |-> EdgeWeight(G, p[i], p[i + 1])])

\* p has the higher mean weight of own edges than q
Heavier(G, p, q) ==
    OwnWeightSum(G, p) * (Len(q) - 1) > OwnWeightSum(G, q) * (Len(p) - 1)

\* two different simple paths with the same ends that share nothing else
IsBubble(p, q) ==
    /\ p # q
    /\ Head(p) = Head(q) /\ Last(p) = Last(q)
    /\ Interior(p) \cap Interior(q) = {}

\* the simple paths that begin with p, p itself included
RECURSIVE Extensions(_, _)
Extensions(G, p) ==
    {p} \cup UNION {Extensions(G, Append(p, e.v)) :
                       e \in {x \in Range(G.edges) :
                                 x.u = Last(p) /\ x.v \notin Range(p)}}

AllSimplePaths(G) ==
    {p \in UNION {Extensions(G, <<n>>) : n \in NodeSet(G)} : Len(p) >= 2}

\* the bubbles of a graph, as ordered pairs of paths
Bubbles(G) ==
    LET ap == AllSimplePaths(G)
    IN {pq \in ap \X ap : IsBubble(pq[1], pq[2])}

\* the graph has exactly one bubble (its two paths, in both orders)
OneBubble(G) == Cardinality(Bubbles(G)) = 2

\* pq is a bubble with both interiors non-empty whose first path has the
\* higher average weight
HeavierFirst(G, pq) ==
    /\ Interior(pq[1]) # {} /\ Interior(pq[2]) # {}
    /\ Heavier(G, pq[1], pq[2])

\* simplify_bubbles has ended, by a return or by an exception
BubblesEnded ==
    \/ pc = "sb_done"
    \/ pc = "error" /\ last.op \in {"none", "bubble"}

\* C12: on a graph with exactly one bubble whose two paths differ in
\* average weight, simplify_bubbles returns, and after it the interior of
\* the branch with the higher average weight is in the graph, the interior
\* of the other branch is gone, and the edges of the heavier branch still
\* join the ancestor to the convergence node.
C12_OneBubbleResolved ==
    LET G0 == build_graph(kmer_dict) IN
    BubblesEnded /\ OneBubble(G0) =>
        \A pq \in Bubbles(G0) :
            HeavierFirst(G0, pq) =>
                LET p == pq[1]
                    q == pq[2]
                IN /\ pc = "sb_done"
                   /\ Interior(p) \subseteq NodeSet(graph)
                   /\ Interior(q) \cap NodeSet(graph) = {}
                   /\ {Head(p), Last(p)} \subseteq NodeSet(graph)
                   /\ \A i \in 1..(Len(p) - 1) :
                         HasEdge(graph, p[i], p[i + 1])

PathEdges(p) == {<<p[i], p[i + 1]>> : i \in 1..(Len(p) - 1)}

EdgePairs(G) == {<<e.u, e.v>> : e \in Range(G.edges)}

IsEntryTip(G, M, B) ==
    Head(B) \in Sources(G) /\ Range(B) \cap Range(M) = {Last(B)}

IsExitTip(G, M, B) ==
    Last(B) \in Sinks(G) /\ Range(B) \cap Range(M) = {Head(B)}

\* the graph is the source-to-sink path M and the dead-end branch B
\* attached to it, and nothing else
MainPlusTip(G, M, B) ==
    /\ Head(M) \in Sources(G) /\ Last(M) \in Sinks(G)
    /\ NodeSet(G) = Range(M) \cup Range(B)
    /\ EdgePairs(G) = PathEdges(M) \cup PathEdges(B)
    /\ IsEntryTip(G, M, B) \/ IsExitTip(G, M, B)

\* the ways to read G as a main path and a dead-end branch that is no
\* longer than the main path
ShortTips(G) ==
    LET ap == AllSimplePaths(G)
    IN {mb \in ap \X ap :
          /\ MainPlusTip(G, mb[1], mb[2])
          /\ Len(mb[2]) <= Len(mb[1])}

\* the main path is all that is left and its contig is the only one
MainPathLeft(M) ==
    /\ err = ""
    /\ pc = "done" =>
          /\ NodeSet(graph) = Range(M)
          /\ PathEdges(M) \subseteq EdgePairs(graph)
          /\ contigs = << [seq |-> contig_of(M), len |-> Len(M) + kmer_size - 2] >>

\* C13: on a graph made of a main source-to-sink path and one short
\* dead-end branch, the run raises nothing, removes the branch's dead-end
\* nodes, keeps every node of the main path, and extracts exactly the main
\* path's contig.  Where the graph can be read so in more than one way,
\* the main path of any one reading may be the path that is kept.
C13_TipRemoved ==
    pc \in {"done", "error"} =>
        LET st == ShortTips(build_graph(kmer_dict))
        IN st # {} => \E mb \in st : MainPathLeft(mb[1])

\* the number of k-mers of a read of n nucleotides
KmersOf(n) == IF n - kmer_size + 1 > 0 THEN n - kmer_size + 1 ELSE 0

\* C14: the counts of the mapping add up to the sum over the reads of
\* max(0, len(read) - k + 1), for k >= 1; a read shorter than k adds
\* nothing and raises nothing.
C14_KmerTotal ==
    /\ SumSeq([i \in 1..Len(kmer_dict) |-> kmer_dict[i].count])
          = SumSeq([i \in 1..Len(reads) |-> KmersOf(Len(reads[i]))])
    /\ pc = "read" => err = ""
    /\ \A i, j \in 1..Len(kmer_dict) :
          /\ Len(kmer_dict[i].kmer) = kmer_size
          /\ i # j => kmer_dict[i].kmer # kmer_dict[j].kmer

\* a read shorter than k after a read with a k-mer that occurs twice
C14_Witness ==
    /\ \E i \in 1..Len(kmer_dict) : kmer_dict[i].count >= 2
    /\ Len(kmer_dict) >= 2
    /\ reads # <<>> /\ Len(Last(reads)) < kmer_size

\* the first and the last k-1 nucleotides of a k-mer
Prefix(kmer) == [i \in 1..(Len(kmer) - 1) |-> kmer[i]]
Suffix(kmer) == [i \in 1..(Len(kmer) - 1) |-> kmer[i + 1]]

\* the graph has one edge for each key of the mapping, from the key's
\* prefix to its suffix with the key's count as weight, and its nodes are
\* the prefixes and the suffixes
OneEdgePerKmer ==
    /\ Len(graph.edges) = Len(kmer_dict)
    /\ Cardinality(Range(graph.edges)) = Len(kmer_dict)
    /\ \A i \in 1..Len(kmer_dict) :
          [u |-> Prefix(kmer_dict[i].kmer), v |-> Suffix(kmer_dict[i].kmer),
           w |-> kmer_dict[i].count] \in Range(graph.edges)
    /\ NodeSet(graph) =
          UNION {{Prefix(kmer_dict[i].kmer), Suffix(kmer_dict[i].kmer)} :
                    i \in 1..Len(kmer_dict)}
    /\ Cardinality(NodeSet(graph)) = Len(graph.nodes)

\* C15: for k >= 1, build_graph yields one edge per distinct k-mer, from
\* prefix to suffix with the count as weight, and the nodes are the
\* prefixes and the suffixes.
C15_OneEdgePerKmer ==
    pc = "built" => OneEdgePerKmer

\* C15 as amended: the same for k >= 2.
C15_OneEdgePerKmerFrom2 ==
    pc = "built" /\ kmer_size >= 2 => OneEdgePerKmer

C15_Witness ==
    /\ pc = "built" /\ kmer_size = 2 /\ Len(kmer_dict) >= 3
    /\ \E i \in 1..Len(kmer_dict) : kmer_dict[i].count >= 2

\* the simple paths from s to t; the one-node path when s = t
PathsBetween(G, s, t) == {p \in Extensions(G, <<s>>) : Last(p) = t}

\* the simple paths from a node without predecessors to a node without
\* successors
SourceSinkPaths(G) ==
    UNION {PathsBetween(G, s, t) : s \in Sources(G), t \in Sinks(G)}

\* the first node's string, then the last character of every later node
ContigSeq(p) ==
    [i \in 1..(Len(p[1]) + Len(p) - 1) |->
        IF i <= Len(p[1]) THEN p[1][i]
        ELSE p[i - Len(p[1]) + 1][Len(p[i - Len(p[1]) + 1])]]

ContigEntry(p) ==
    [seq |-> ContigSeq(p), len |-> (kmer_size - 1) + (Len(p) - 1)]

\* C16: the contigs are one entry for each simple path from each source to
\* each sink, none merged and none dropped; the sequence is the first
\* node's string followed by the last character of every later node, the
\* length is (k-1) + the number of edges of the path.
C16_ContigPerPath ==
    pc = "done" =>
        LET ps == SourceSinkPaths(graph) IN
        /\ Len(contigs) = Cardinality(ps)
        /\ \A p \in ps :
              Cardinality({i \in 1..Len(contigs) : contigs[i] = ContigEntry(p)})
                = Cardinality({q \in ps : ContigEntry(q) = ContigEntry(p)})

\* two contigs from the same source to the same sink
C16_Witness ==
    /\ pc = "done" /\ Len(contigs) >= 2
    /\ Cardinality(Sources(graph)) = 1 /\ Cardinality(Sinks(graph)) = 1
    /\ contigs[1].len # contigs[2].len

\* C17: every average weight handed to select_best_path is the mean of the
\* weights of the path's own edges, those between consecutive nodes of the
\* path, whatever other edges join nodes of the path.
C17_OwnEdgesMean ==
    Called =>
        \A i \in 1..Len(last.paths) :
            last.weights[i].num * (Len(last.paths[i]) - 1)
                = OwnWeightSum(last.before, last.paths[i]) * last.weights[i].den

TipCall == Called /\ last.op \in {"entry", "out"}

\* C18: every candidate path of solve_entry_tips and solve_out_tips has at
\* least 2 edges; a single edge from a source to the convergence node, or
\* from the divergence node to a sink, is no candidate.
C18_TwoEdgeCandidates ==
    TipCall => \A i \in 1..Len(last.paths) : Len(last.paths[i]) - 1 >= 2

\* the candidates of the recorded call are all the simple paths, of 1 edge
\* or more, from the nodes without predecessors to the convergence node
\* (from the divergence node to the nodes without successors), each once
AllPathsCandidates ==
    TipCall =>
        LET G == last.before
            node == CHOOSE n \in last.ends : TRUE
            all == IF last.op = "entry"
                   THEN UNION {PathsBetween(G, s, node) : s \in Sources(G)}
                   ELSE UNION {PathsBetween(G, node, t) : t \in Sinks(G)}
        IN /\ Range(last.paths) = all
           /\ Len(last.paths) = Cardinality(all)
           /\ \A i \in 1..Len(last.paths) : Len(last.paths[i]) - 1 >= 1

\* a node with two or more predecessors that two or more simple paths,
\* single edges included, reach from the nodes without predecessors
EntryPending ==
    \E n \in NodeSet(graph) :
        /\ Cardinality({e \in Range(graph.edges) : e.v = n}) >= 2
        /\ Cardinality(UNION {PathsBetween(graph, s, n) :
                                 s \in Sources(graph)}) >= 2

\* C18 as amended: the candidates are all the simple paths of 1 edge or
\* more, a single edge is a candidate like any other, and a scan of
\* solve_entry_tips that meets two or more candidates at a node, single
\* edges or not, calls select_best_path.
C18_AllPathsCandidates ==
    /\ []AllPathsCandidates
    /\ [][pc = "et" /\ EntryPending =>
              /\ pc' \in {"et", "error"}
              /\ last'.op = "entry" /\ last'.before = graph]_vars

\* a resolution among candidates of a single edge and of two edges
C18_Witness ==
    /\ TipCall /\ Returned /\ last.op = "entry" /\ RemovedNodes # {}
    /\ \E i, j \in 1..Len(last.paths) :
          Len(last.paths[i]) = 2 /\ Len(last.paths[j]) = 3

\* a node with two or more successors from which two or more simple paths
\* lead to the nodes without successors
ExitPending ==
    \E n \in NodeSet(graph) :
        /\ Cardinality({e \in Range(graph.edges) : e.u = n}) >= 2
        /\ Cardinality(UNION {PathsBetween(graph, n, t) :
                                 t \in Sinks(graph)}) >= 2

\* a node with two or more predecessors to which two or more simple paths
\* lead from one node
BubblePending ==
    \E n \in NodeSet(graph) :
        /\ Cardinality({e \in Range(graph.edges) : e.v = n}) >= 2
        /\ \E a \in NodeSet(graph) :
              Cardinality(PathsBetween(graph, a, n)) >= 2

\* the scan that is about to run finds fewer than 2 candidates everywhere
FewerThanTwo ==
    \/ pc = "sb_for" /\ is_directed_acyclic_graph(graph) /\ ~BubblePending
    \/ pc = "et" /\ ~EntryPending
    \/ pc = "ot_for" /\ ~ExitPending

\* C19: every call of select_best_path gets 2 candidate paths or more,
\* with as many lengths and as many average weights; a scan that finds
\* fewer than 2 candidates leaves the graph as it is, makes no call and
\* raises nothing.
C19_TwoCandidates ==
    /\ [](Called =>
              /\ Len(last.paths) >= 2
              /\ Len(last.lengths) = Len(last.paths)
              /\ Len(last.weights) = Len(last.paths))
    /\ [][FewerThanTwo =>
              graph' = graph /\ last' = last /\ err' = "" /\ pc' # "error"]_vars

\* solve_entry_tips has returned without a call, past a node with two
\* predecessors that one candidate path reaches
C19_Witness ==
    /\ pc = "et_done" /\ ~Called
    /\ \E n \in NodeSet(graph) :
          /\ Cardinality({e \in Range(graph.edges) : e.v = n}) >= 2
          /\ Cardinality(UNION {PathsBetween(graph, s, n) :
                                   s \in Sources(graph)}) = 1

\* the list holds each node of the set once and nothing else
ListOf(list, S) == Range(list) = S /\ Len(list) = Cardinality(S)

\* C20: in a run of main, when solve_entry_tips scans, its starting nodes
\* are the nodes without predecessors of the graph as it is; when
\* solve_out_tips scans, its ending nodes are the nodes without successors
\* of the graph as it is; get_contigs is given both lists of the graph as
\* it is.
C20_ListsCurrent ==
    /\ pc = "et" => ListOf(starting_nodes, Sources(graph))
    /\ pc = "ot_for" => ListOf(ending_nodes, Sinks(graph))
    /\ pc = "done" =>
          /\ ListOf(starting_nodes, Sources(graph))
          /\ ListOf(ending_nodes, Sinks(graph))

\* solve_out_tips scans again after a removal that changed the nodes
\* without successors
C20_Witness ==
    /\ pc = "ot_for" /\ Returned /\ last.op = "out"
    /\ Sinks(graph) # Sinks(last.before)

=============================================================================
